---- MODULE Spec2Model ----
(***************************************************************************)
(* Sharding specifications of torch.distributed._shard.sharding_spec.api:  *)
(* ChunkShardingSpec (build_metadata, shard) and EnumerableShardingSpec    *)
(* (__post_init__, build_metadata, shard).                                 *)
(*                                                                         *)
(* Tensor dimensions and Python list indices are 0-based in the source;    *)
(* TLA+ sequences are 1-based, so position d of a Python list is element   *)
(* d + 1 of the sequence that models it.  A placement "rank:R/device" is   *)
(* modelled by its rank R.                                                 *)
(***************************************************************************)
EXTENDS Integers, Sequences, FiniteSets, TLC

\* ---------------------------------------------------------------- bounds
\* Number of ranks of the process group (Spec).
WorldSize == 2
\* Longest placement list of a ChunkShardingSpec handed to shard (Spec).
MaxPlacements == 3
\* Largest size of the leading tensor dimension handed to shard (Spec).
MaxRows == 3
\* Longest placement list handed to build_metadata (SpecMeta).
MaxChunks == 5
\* Largest size of a dimension of a 1-d shape handed to build_metadata (SpecMeta).
MaxDimSize == 10
\* Longest shard list of an EnumerableShardingSpec (SpecEnum).
MaxShards == 3

Ranks == 0..(WorldSize - 1)

Max(a, b) == IF a >= b THEN a ELSE b
Min(a, b) == IF a <= b THEN a ELSE b

\* Sequences over S of length lo..hi.
SeqsOf(S, lo, hi) == UNION {[1..n -> S] : n \in lo..hi}

\* ------------------------------------------------------------- tensors
\* The coordinates of a tensor of shape sizes.
Coords(sizes) ==
    {c \in [1..Len(sizes) -> 0..MaxDimSize] : \A j \in 1..Len(sizes) : c[j] < sizes[j]}

RECURSIVE CellId(_, _)
\* A number that identifies coordinate c (from position j on): distinct
\* coordinates get distinct numbers.
CellId(c, j) ==
    IF j > Len(c) THEN 0 ELSE c[j] + (MaxDimSize + 1) * CellId(c, j + 1)

\* The values of the tensor materialized on the source rank: every cell holds
\* a value of its own, so a slice taken from the wrong place shows.
SrcData(sizes) == [c \in Coords(sizes) |-> 1 + CellId(c, 1)]

\* What the tensor of a rank other than the source holds before the call:
\* in every cell a value that differs from the source's.
StaleData(sizes) == [c \in Coords(sizes) |-> 0 - (1 + CellId(c, 1))]

\* torch.Tensor.narrow(dim, start, length): a view (same storage) of the
\* cells whose coordinate on dimension idx lies in [start, start + length).
Narrow(t, idx, start, length) ==
    LET newSizes == [t.sizes EXCEPT ![idx + 1] = length]
    IN  [storage |-> t.storage,
         sizes   |-> newSizes,
         data    |-> [c \in Coords(newSizes) |->
                         t.data[[c EXCEPT ![idx + 1] = c[idx + 1] + start]]]]

\* torch.Tensor.clone().detach().contiguous(): the same values in a storage of its own.
Clone(t) == [t EXCEPT !.storage = "own"]

\* ------------------------------------------------- chunk size calculator
\* get_split_size: ceil(dim_size / chunks).
get_split_size(dim_size, chunks) == (dim_size + chunks - 1) \div chunks

\* get_chunked_dim_size: max(0, min(split_size, dim_size - idx * split_size)).
get_chunked_dim_size(dim_size, split_size, idx) ==
    Max(0, Min(split_size, dim_size - idx * split_size))

\* ------------------------------------------- ChunkShardingSpec.build_metadata
\* Python's list index: a negative index counts from the end.
PyIndex(d, n) == IF d < 0 THEN d + n ELSE d

\* ChunkShardMetadata with the offset advanced by the size of this chunk
\* instead of the split size.
ChunkShardMetadataChunkOffset(sizes, d, pls, split_size, idx, chunked_dim_size) ==
    LET tensor_num_dim == Len(sizes)
        at == PyIndex(d, tensor_num_dim) + 1
    IN  [shard_offsets |-> [[j \in 1..tensor_num_dim |-> 0]
                               EXCEPT ![at] = chunked_dim_size * idx],
         shard_sizes   |-> [sizes EXCEPT ![at] = chunked_dim_size],
         placement     |-> pls[idx + 1]]

\* The ShardMetadata build_metadata makes for placement index idx.
ChunkShardMetadata(sizes, d, pls, split_size, idx, chunked_dim_size) ==
    LET tensor_num_dim == Len(sizes)
        at == PyIndex(d, tensor_num_dim) + 1
    IN  [shard_offsets |-> [[j \in 1..tensor_num_dim |-> 0] EXCEPT ![at] = split_size * idx],
         shard_sizes   |-> [sizes EXCEPT ![at] = chunked_dim_size],
         placement     |-> pls[idx + 1]]

RECURSIVE ChunkShardsFromKeepEmpty(_, _, _, _, _)
\* ChunkShardsFrom without the test chunked_dim_size > 0.
ChunkShardsFromKeepEmpty(sizes, d, pls, split_size, idx) ==
    IF idx >= Len(pls) THEN << >>
    ELSE LET sharding_dim_size == sizes[PyIndex(d, Len(sizes)) + 1]
             chunked_dim_size == get_chunked_dim_size(sharding_dim_size, split_size, idx)
         IN  << [shard_offsets |-> [[j \in 1..Len(sizes) |-> 0]
                                      EXCEPT ![PyIndex(d, Len(sizes)) + 1] = split_size * idx],
                 shard_sizes   |-> [sizes EXCEPT ![PyIndex(d, Len(sizes)) + 1] =
                                                   chunked_dim_size],
                 placement     |-> pls[idx + 1]] >>
             \o ChunkShardsFromKeepEmpty(sizes, d, pls, split_size, idx + 1)

RECURSIVE ChunkShardsFrom(_, _, _, _, _)
\* The loop over enumerate(self.placements), from index idx on.
ChunkShardsFrom(sizes, d, pls, split_size, idx) ==
    IF idx >= Len(pls) THEN << >>
    ELSE LET sharding_dim_size == sizes[PyIndex(d, Len(sizes)) + 1]
             chunked_dim_size == get_chunked_dim_size(sharding_dim_size, split_size, idx)
             rest == ChunkShardsFrom(sizes, d, pls, split_size, idx + 1)
         IN  IF chunked_dim_size > 0
             THEN << ChunkShardMetadata(sizes, d, pls, split_size, idx, chunked_dim_size) >>
                  \o rest
             ELSE rest

\* build_metadata that takes every negative dim for invalid.
build_metadata_RejectNegative(sizes, d, pls) ==
    LET tensor_num_dim == Len(sizes)
    IN  IF d >= tensor_num_dim \/ d < 0
        THEN [error |-> "ValueError", shards_metadata |-> << >>, size |-> << >>]
        ELSE [error |-> "none",
              shards_metadata |->
                  ChunkShardsFrom(sizes, d, pls, get_split_size(sizes[d + 1], Len(pls)), 0),
              size |-> sizes]

\* build_metadata: ValueError for a dim outside [-tensor_num_dim, tensor_num_dim),
\* else the ShardedTensorMetadata.
build_metadata(sizes, d, pls) ==
    LET tensor_num_dim == Len(sizes)
    IN  IF d >= tensor_num_dim \/ d < 0 - tensor_num_dim
        THEN [error |-> "ValueError", shards_metadata |-> << >>, size |-> << >>]
        ELSE LET sharding_dim_size == sizes[PyIndex(d, tensor_num_dim) + 1]
                 chunks == Len(pls)
                 split_size == get_split_size(sharding_dim_size, chunks)
             IN  [error |-> "none",
                  shards_metadata |-> ChunkShardsFrom(sizes, d, pls, split_size, 0),
                  size |-> sizes]

\* -------------------------------------------------- ChunkShardingSpec.shard
\* _parse_and_validate_remote_device: the rank of a placement; ValueError when
\* the rank is not a rank of the process group.
PlacementValid(placement) == placement >= 0 /\ placement < WorldSize
PlacementRank(placement) == placement

RECURSIVE LocalTensorFromZero(_, _, _, _)
\* LocalTensor that narrows from position 0 instead of the shard's offset.
LocalTensorFromZero(local_tensor, t, shard_meta, idx) ==
    IF idx >= Min(Len(shard_meta.shard_offsets), Len(shard_meta.shard_sizes))
    THEN local_tensor
    ELSE IF shard_meta.shard_sizes[idx + 1] < t.sizes[idx + 1]
         THEN LocalTensorFromZero(Clone(Narrow(local_tensor, idx, 0,
                                               shard_meta.shard_sizes[idx + 1])),
                                  t, shard_meta, idx + 1)
         ELSE LocalTensorFromZero(local_tensor, t, shard_meta, idx + 1)

RECURSIVE LocalTensor(_, _, _, _)
\* The loop over the dimensions (idx on) that narrows the tensor to one shard.
LocalTensor(local_tensor, t, shard_meta, idx) ==
    IF idx >= Min(Len(shard_meta.shard_offsets), Len(shard_meta.shard_sizes))
    THEN local_tensor
    ELSE IF shard_meta.shard_sizes[idx + 1] < t.sizes[idx + 1]
         THEN LocalTensor(Clone(Narrow(local_tensor, idx,
                                       shard_meta.shard_offsets[idx + 1],
                                       shard_meta.shard_sizes[idx + 1])),
                          t, shard_meta, idx + 1)
         ELSE LocalTensor(local_tensor, t, shard_meta, idx + 1)

RECURSIVE LocalShardsAnyRank(_, _, _, _)
\* LocalShards without the test rank == current_rank.
LocalShardsAnyRank(shards_metadata, i, t, current_rank) ==
    IF i > Len(shards_metadata) THEN [error |-> "none", shards |-> << >>]
    ELSE LET shard_meta == shards_metadata[i]
         IN  IF ~PlacementValid(shard_meta.placement)
             THEN [error |-> "ValueError", shards |-> << >>]
             ELSE LET rest == LocalShardsAnyRank(shards_metadata, i + 1, t, current_rank)
                      mine == << [tensor   |-> LocalTensor(t, t, shard_meta, 0),
                                  metadata |-> shard_meta] >>
                  IN  IF rest.error # "none" THEN rest
                      ELSE [error |-> "none", shards |-> mine \o rest.shards]

RECURSIVE LocalShards(_, _, _, _)
\* The loop over tensor_meta.shards_metadata from position i on: the Shards
\* of current_rank, or ValueError at the first placement that is not valid.
LocalShards(shards_metadata, i, t, current_rank) ==
    IF i > Len(shards_metadata) THEN [error |-> "none", shards |-> << >>]
    ELSE LET shard_meta == shards_metadata[i]
         IN  IF ~PlacementValid(shard_meta.placement)
             THEN [error |-> "ValueError", shards |-> << >>]
             ELSE LET rest == LocalShards(shards_metadata, i + 1, t, current_rank)
                      mine == IF PlacementRank(shard_meta.placement) = current_rank
                              THEN << [tensor   |-> LocalTensor(t, t, shard_meta, 0),
                                       metadata |-> shard_meta] >>
                              ELSE << >>
                  IN  IF rest.error # "none" THEN rest
                      ELSE [error |-> "none", shards |-> mine \o rest.shards]

\* ------------------------------------------------------------------ state
VARIABLES
    dim,            \* ChunkShardingSpec.dim
    placements,     \* ChunkShardingSpec.placements
    tensor_sizes,   \* the global shape (tensor.size())
    src_rank,       \* src_rank of shard
    tensor,         \* tensor[r]: the tensor rank r passes to shard
    pc,             \* pc[r]: where rank r is in shard / build_metadata
    issued,         \* the ranks that have called dist.broadcast
    tensor_meta,    \* tensor_meta[r]: the shards_metadata rank r built
    local_shards,   \* local_shards[r]: the Shards handed to _init_from_local_shards
    shards,         \* EnumerableShardingSpec.shards
    enum_pc,        \* the EnumerableShardingSpec: "new", "constructed", or the error raised
    enum_meta,      \* what EnumerableShardingSpec.build_metadata returned or raised
    enum_shard      \* enum_shard[r]: what EnumerableShardingSpec.shard did on rank r

vars == << dim, placements, tensor_sizes, src_rank, tensor, pc, issued, tensor_meta,
           local_shards, shards, enum_pc, enum_meta, enum_shard >>

chunkInputs == << dim, placements, tensor_sizes, src_rank >>
enumVars == << shards, enum_pc, enum_meta, enum_shard >>

\* dist.broadcast returns on a rank once every rank of the group has called it.
BroadcastComplete == issued = Ranks

\* shard up to the blocking dist.broadcast: build_metadata (which may raise),
\* get_rank, then the call of broadcast.
ShardEnter(r) ==
    /\ pc[r] = "start"
    /\ LET m == build_metadata(tensor_sizes, dim, placements)
       IN  IF m.error # "none"
           THEN /\ pc' = [pc EXCEPT ![r] = m.error]
                /\ UNCHANGED << issued, tensor_meta >>
           ELSE /\ pc' = [pc EXCEPT ![r] = "broadcast"]
                /\ issued' = issued \cup {r}
                /\ tensor_meta' = [tensor_meta EXCEPT ![r] = m.shards_metadata]
    /\ UNCHANGED << chunkInputs, tensor, local_shards, enumVars >>

\* ShardFinish with the loop over the metadata run without waiting for the
\* broadcast to complete.
ShardFinishNoWait(r) ==
    /\ pc[r] = "broadcast"
    /\ LET received == [tensor[r] EXCEPT !.data = tensor[src_rank].data]
           res == LocalShards(tensor_meta[r], 1, received, r)
       IN  /\ tensor' = [tensor EXCEPT ![r] = received]
           /\ IF res.error # "none"
              THEN /\ pc' = [pc EXCEPT ![r] = res.error]
                   /\ UNCHANGED local_shards
              ELSE /\ pc' = [pc EXCEPT ![r] = "done"]
                   /\ local_shards' = [local_shards EXCEPT ![r] = res.shards]
    /\ UNCHANGED << chunkInputs, issued, tensor_meta, enumVars >>

\* shard from the return of dist.broadcast on: the tensor now holds the source
\* rank's values; the loop over the metadata; the ShardedTensor is returned.
ShardFinish(r) ==
    /\ pc[r] = "broadcast"
    /\ BroadcastComplete
    /\ LET received == [tensor[r] EXCEPT !.data = tensor[src_rank].data]
           res == LocalShards(tensor_meta[r], 1, received, r)
       IN  /\ tensor' = [tensor EXCEPT ![r] = received]
           /\ IF res.error # "none"
              THEN /\ pc' = [pc EXCEPT ![r] = res.error]
                   /\ UNCHANGED local_shards
              ELSE /\ pc' = [pc EXCEPT ![r] = "done"]
                   /\ local_shards' = [local_shards EXCEPT ![r] = res.shards]
    /\ UNCHANGED << chunkInputs, issued, tensor_meta, enumVars >>

\* A direct call of ChunkShardingSpec.build_metadata on rank r.
BuildMetadata(r) ==
    /\ pc[r] = "start"
    /\ LET m == build_metadata(tensor_sizes, dim, placements)
       IN  /\ pc' = [pc EXCEPT ![r] = IF m.error # "none" THEN m.error ELSE "built"]
           /\ tensor_meta' = [tensor_meta EXCEPT ![r] = m.shards_metadata]
    /\ UNCHANGED << chunkInputs, tensor, issued, local_shards, enumVars >>

\* ------------------------------------------------- EnumerableShardingSpec
\* The cells of the box of one ShardMetadata.
ShardCells(sh) ==
    {c \in [1..Len(sh.shard_offsets) -> 0..MaxDimSize] :
        \A j \in 1..Len(sh.shard_offsets) :
            /\ sh.shard_offsets[j] <= c[j]
            /\ c[j] < sh.shard_offsets[j] + sh.shard_sizes[j]}

\* validate_non_overlapping_shards_metadata: raises when two shards intersect.
ShardsOverlap(shs) ==
    \E i, k \in 1..Len(shs) : i < k /\ ShardCells(shs[i]) \cap ShardCells(shs[k]) # {}

\* check_tensor: raises unless the shards tile tensor_sizes exactly (every
\* shard within bounds, every cell of the tensor in exactly one shard).
check_tensor_ok(shs, sizes) ==
    /\ \A i \in 1..Len(shs) :
          /\ Len(shs[i].shard_offsets) = Len(sizes)
          /\ \A j \in 1..Len(sizes) :
                shs[i].shard_offsets[j] + shs[i].shard_sizes[j] <= sizes[j]
    /\ \A c \in Coords(sizes) :
          Cardinality({i \in 1..Len(shs) : c \in ShardCells(shs[i])}) = 1

\* The loop of __post_init__ that compares each shard's rank with the one before.
InconsistentRanks(shs) ==
    \E i \in 2..Len(shs) : Len(shs[i].shard_offsets) # Len(shs[i - 1].shard_offsets)

\* __post_init__ without the call of validate_non_overlapping_shards_metadata.
EnumPostInitNoOverlapCheck ==
    /\ enum_pc = "new"
    /\ enum_pc' = IF Len(shards) = 0 THEN "ValueError: empty shard list"
                  ELSE IF InconsistentRanks(shards) THEN "ValueError: inconsistent ranks"
                  ELSE "constructed"
    /\ UNCHANGED << chunkInputs, tensor, pc, issued, tensor_meta, local_shards,
                    shards, enum_meta, enum_shard >>

\* EnumerableShardingSpec.__post_init__.
EnumPostInit ==
    /\ enum_pc = "new"
    /\ enum_pc' = IF Len(shards) = 0 THEN "ValueError: empty shard list"
                  ELSE IF InconsistentRanks(shards) THEN "ValueError: inconsistent ranks"
                  ELSE IF ShardsOverlap(shards) THEN "ValueError: shards overlap"
                  ELSE "constructed"
    /\ UNCHANGED << chunkInputs, tensor, pc, issued, tensor_meta, local_shards,
                    shards, enum_meta, enum_shard >>

\* EnumerableShardingSpec.build_metadata.
EnumBuildMetadata ==
    /\ enum_pc = "constructed"
    /\ enum_meta.error = "unbuilt"
    /\ enum_meta' = IF check_tensor_ok(shards, tensor_sizes)
                    THEN [error |-> "none", shards_metadata |-> shards, size |-> tensor_sizes]
                    ELSE [error |-> "ValueError", shards_metadata |-> << >>, size |-> << >>]
    /\ UNCHANGED << chunkInputs, tensor, pc, issued, tensor_meta, local_shards,
                    shards, enum_pc, enum_shard >>

\* shard that calls dist.broadcast before it raises.
EnumShardBroadcastFirst(r, src) ==
    /\ enum_pc = "constructed"
    /\ enum_shard[r] = "idle"
    /\ issued' = issued \cup {r}
    /\ enum_shard' = [enum_shard EXCEPT ![r] = "NotImplementedError"]
    /\ UNCHANGED << chunkInputs, tensor, pc, tensor_meta, local_shards,
                    shards, enum_pc, enum_meta >>

\* EnumerableShardingSpec.shard(tensor[r], src, process_group) on rank r.
EnumShard(r, src) ==
    /\ enum_pc = "constructed"
    /\ enum_shard[r] = "idle"
    /\ enum_shard' = [enum_shard EXCEPT ![r] = "NotImplementedError"]
    /\ UNCHANGED << chunkInputs, tensor, pc, issued, tensor_meta, local_shards,
                    shards, enum_pc, enum_meta >>

\* ---------------------------------------------------------- initial states
\* No EnumerableShardingSpec.
EnumIdle ==
    /\ shards = << >>
    /\ enum_pc = "none"
    /\ enum_meta = [error |-> "unbuilt", shards_metadata |-> << >>, size |-> << >>]
    /\ enum_shard = [r \in Ranks |-> "idle"]

\* A ChunkShardingSpec and a shape; no rank has called anything.
ChunkIdle(shapes, dims, pls) ==
    /\ dim \in dims
    /\ placements \in pls
    /\ tensor_sizes \in shapes
    /\ pc = [r \in Ranks |-> "start"]
    /\ issued = {}
    /\ tensor_meta = [r \in Ranks |-> << >>]
    /\ local_shards = [r \in Ranks |-> << >>]

\* The tensor of a rank: the source rank's is materialized, another's is stale.
InputTensor(r) ==
    [storage |-> "input",
     sizes   |-> tensor_sizes,
     data    |-> IF r = src_rank THEN SrcData(tensor_sizes)
                 ELSE StaleData(tensor_sizes)]

\* The shapes, dims and placement lists handed to shard.
DistShapes == {<< n >> : n \in 0..MaxRows} \cup {<< n, 2 >> : n \in 0..MaxRows}
DistDims == -2..2
\* Rank WorldSize is not a rank of the group.
DistPlacements == SeqsOf(0..WorldSize, 1, MaxPlacements)

\* Every rank of the group is about to call ChunkShardingSpec.shard.
Init ==
    /\ ChunkIdle(DistShapes, DistDims, DistPlacements)
    /\ src_rank \in Ranks
    /\ tensor = [r \in Ranks |-> InputTensor(r)]
    /\ EnumIdle

Next == \E r \in Ranks : ShardEnter(r) \/ ShardFinish(r)

Spec == Init /\ [][Next]_vars

\* The shapes, dims and placement lists handed to build_metadata.
MetaShapes ==
    {<< >>} \cup {<< n >> : n \in 0..MaxDimSize}
            \cup {<< a, b >> : a \in 0..MaxRows, b \in 0..MaxRows}
MetaDims == -3..2
MetaPlacements == SeqsOf(0..1, 1, MaxChunks)

\* Rank 0 is about to call ChunkShardingSpec.build_metadata.
InitMeta ==
    /\ ChunkIdle(MetaShapes, MetaDims, MetaPlacements)
    /\ src_rank = 0
    /\ tensor = [r \in Ranks |-> [storage |-> "none", sizes |-> << >>, data |-> << >>]]
    /\ EnumIdle

NextMeta == BuildMetadata(0)

SpecMeta == InitMeta /\ [][NextMeta]_vars

\* The ShardMetadata an EnumerableShardingSpec is made of, and the shapes
\* handed to its build_metadata.
EnumShardMenu ==
    {[shard_offsets |-> << o >>, shard_sizes |-> << z >>, placement |-> 0] :
        o \in 0..2, z \in 1..2}
    \cup
    {[shard_offsets |-> o, shard_sizes |-> z, placement |-> 0] :
        o \in {<< 0, 0 >>, << 1, 0 >>, << 0, 1 >>},
        z \in {<< 1, 1 >>, << 1, 2 >>, << 2, 1 >>}}
EnumShapes == {<< 2 >>, << 3 >>, << 4 >>, << 2, 2 >>, << 2, 1 >>}

\* An EnumerableShardingSpec is being constructed from a shard list.
InitEnum ==
    /\ dim = 0
    /\ placements = << 0 >>
    /\ tensor_sizes \in EnumShapes
    /\ src_rank = 0
    /\ tensor = [r \in Ranks |-> InputTensor(r)]
    /\ pc = [r \in Ranks |-> "start"]
    /\ issued = {}
    /\ tensor_meta = [r \in Ranks |-> << >>]
    /\ local_shards = [r \in Ranks |-> << >>]
    /\ shards \in SeqsOf(EnumShardMenu, 0, MaxShards)
    /\ enum_pc = "new"
    /\ enum_meta = [error |-> "unbuilt", shards_metadata |-> << >>, size |-> << >>]
    /\ enum_shard = [r \in Ranks |-> "idle"]

NextEnum ==
    \/ EnumPostInit
    \/ EnumBuildMetadata
    \/ \E r \in Ranks, src \in Ranks : EnumShard(r, src)

SpecEnum == InitEnum /\ [][NextEnum]_vars

\* ================================================================ claims
\* The descriptors of a list of Shards, in order.
MetadataOf(shs) == [i \in 1..Len(shs) |-> shs[i].metadata]

\* The descriptors of rank r's built metadata whose placement is rank q, in
\* metadata order.
PlacedOn(r, q) == SelectSeq(tensor_meta[r], LAMBDA m : m.placement = q)

\* C1: once shard has completed on a rank, the local shards of that rank are
\* exactly the descriptors of the built metadata placed on that rank, each
\* once and in metadata order (none when no placement names the rank), and
\* every rank built the same metadata.
C1_LocalShardsAreThosePlacedOnTheRank ==
    \A r \in Ranks :
        pc[r] = "done" =>
            /\ MetadataOf(local_shards[r]) = PlacedOn(r, r)
            /\ \A q \in Ranks : pc[q] = "done" => tensor_meta[q] = tensor_meta[r]

\* C1 witness: shard completed on every rank, one rank holds several shards,
\* another holds none.
C1_Witness ==
    /\ \A r \in Ranks : pc[r] = "done"
    /\ \E r, q \in Ranks : Len(local_shards[r]) >= 2 /\ local_shards[q] = << >>

\* The cell of the global tensor that cell c of a shard comes from.
GlobalCell(sh, c) == [j \in 1..Len(c) |-> c[j] + sh.metadata.shard_offsets[j]]

\* The shard's tensor has the descriptor's sizes and holds the source values
\* of the region [offset, offset + size).
HoldsSourceRegion(sh) ==
    /\ sh.tensor.sizes = sh.metadata.shard_sizes
    /\ DOMAIN sh.tensor.data = Coords(sh.metadata.shard_sizes)
    /\ \A c \in Coords(sh.metadata.shard_sizes) :
          sh.tensor.data[c] = SrcData(tensor_sizes)[GlobalCell(sh, c)]

\* The local shards, over all ranks, that cover cell c of the global tensor.
ShardsCovering(c) ==
    {rs \in {<< r, i >> : r \in Ranks, i \in 1..Len(placements)} :
        /\ rs[2] <= Len(local_shards[rs[1]])
        /\ LET sh == local_shards[rs[1]][rs[2]]
           IN  \E k \in Coords(sh.metadata.shard_sizes) : GlobalCell(sh, k) = c}

\* C2: every local shard of a rank that completed shard holds the values the
\* source rank's tensor had before the call in the region of its descriptor,
\* whatever the rank's own tensor held; and once every rank completed, each
\* cell of the global tensor lies in exactly one local shard, which holds the
\* source's value of it.
C2_ShardsHoldTheSourceValues ==
    /\ \A r \in Ranks : \A i \in 1..Len(local_shards[r]) :
          HoldsSourceRegion(local_shards[r][i])
    /\ (\A r \in Ranks : pc[r] = "done") =>
          \A c \in Coords(tensor_sizes) : Cardinality(ShardsCovering(c)) = 1

\* C2 witness: a rank other than the source, whose tensor held other values,
\* completed shard with a shard that starts past offset 0.
C2_Witness ==
    \E r \in Ranks :
        /\ r # src_rank
        /\ pc[r] = "done"
        /\ \A q \in Ranks : pc[q] = "done"
        /\ \E i \in 1..Len(local_shards[r]) :
              \E j \in 1..Len(tensor_sizes) :
                  local_shards[r][i].metadata.shard_offsets[j] > 0

\* C3: a rank that failed with a validation error has not called the broadcast.
C3_ValidationErrorsBeforeBroadcast ==
    \A r \in Ranks : pc[r] = "ValueError" => r \notin issued

\* C4: a rank that has started its loop over the metadata (it holds local
\* shards, has returned, or has raised in the loop) does so only after every
\* rank of the group has called the broadcast; so while some rank has not
\* called it, no rank has returned.
C4_BroadcastIsABarrier ==
    \A r \in Ranks :
        (pc[r] = "done" \/ local_shards[r] # << >> \/ (pc[r] = "ValueError" /\ r \in issued))
            => issued = Ranks

\* C4 witness: one rank has returned while another is still in the broadcast.
C4_Witness ==
    \E r, q \in Ranks : pc[r] = "done" /\ pc[q] = "broadcast"

\* C9: no local shard's tensor shares the storage of the input tensor, the
\* buffer of the broadcast.
C9_LocalShardsOwnTheirStorage ==
    \A r \in Ranks : \A i \in 1..Len(local_shards[r]) :
        local_shards[r][i].tensor.storage # "input"

\* ---------------------------------------------- build_metadata (SpecMeta)
\* Position, in a shape, of the dimension that dim addresses.
ShardedDim == (IF dim < 0 THEN dim + Len(tensor_sizes) ELSE dim) + 1

\* Size N of the sharded dimension and number k of placements.
ShardedSize == tensor_sizes[ShardedDim]
NumPlacements == Len(placements)

\* The metadata rank 0 got from build_metadata.
Built == pc[0] = "built"
Emitted == tensor_meta[0]

RECURSIVE SumOfSizes(_, _)
\* Sum of the sizes, on dimension position at, of the descriptors of shs.
SumOfSizes(shs, at) ==
    IF shs = << >> THEN 0 ELSE Head(shs).shard_sizes[at] + SumOfSizes(Tail(shs), at)

\* Descriptor sh covers coordinate c.
Covers(sh, c) ==
    \A j \in 1..Len(c) :
        sh.shard_offsets[j] <= c[j] /\ c[j] < sh.shard_offsets[j] + sh.shard_sizes[j]

\* C6: the emitted descriptors tile the tensor: their sizes on the sharded
\* dimension sum to N, their ranges on it are pairwise disjoint, and every
\* coordinate of the global shape is covered by exactly one of them.
C6_ChunkDescriptorsTileTheTensor ==
    Built =>
        /\ SumOfSizes(Emitted, ShardedDim) = ShardedSize
        /\ \A i, k \in 1..Len(Emitted) :
              i < k =>
                 \/ Emitted[i].shard_offsets[ShardedDim] + Emitted[i].shard_sizes[ShardedDim]
                       <= Emitted[k].shard_offsets[ShardedDim]
                 \/ Emitted[k].shard_offsets[ShardedDim] + Emitted[k].shard_sizes[ShardedDim]
                       <= Emitted[i].shard_offsets[ShardedDim]
        /\ \A c \in Coords(tensor_sizes) :
              Cardinality({i \in 1..Len(Emitted) : Covers(Emitted[i], c)}) = 1

\* C6 witness: a two-dimensional shape sharded unevenly on its last dimension.
C6_Witness ==
    /\ Built
    /\ Len(tensor_sizes) = 2
    /\ ShardedDim = 2
    /\ ShardedSize = 3
    /\ NumPlacements = 2
    /\ Len(Emitted) = 2

\* ceil(a / b) for b > 0.
CeilDiv(a, b) == (a + b - 1) \div b

\* C7 as stated: the number of descriptors is min(k, ceil(N / ceil(N / k))),
\* a number only when ceil(N / k) is not 0.
C7_CountIsMinOfKAndCeil ==
    Built =>
        /\ CeilDiv(ShardedSize, NumPlacements) # 0
        /\ Len(Emitted) =
              Min(NumPlacements, CeilDiv(ShardedSize, CeilDiv(ShardedSize, NumPlacements)))

\* C7 amended: for N >= 1 the number of descriptors is
\* min(k, ceil(N / ceil(N / k))); for N = 0 no descriptor is emitted; no
\* emitted descriptor has size 0 on the sharded dimension.
C7_CountForPositiveSize ==
    Built =>
        /\ ShardedSize >= 1 =>
              Len(Emitted) =
                 Min(NumPlacements,
                     CeilDiv(ShardedSize, CeilDiv(ShardedSize, NumPlacements)))
        /\ ShardedSize = 0 => Emitted = << >>
        /\ \A i \in 1..Len(Emitted) : Emitted[i].shard_sizes[ShardedDim] > 0
        /\ (tensor_sizes = << 10 >> /\ NumPlacements = 3) =>
              [i \in 1..Len(Emitted) |-> Emitted[i].shard_sizes[1]] = << 4, 4, 2 >>

\* C7 witness: shape [3] across 5 placements emits 3 descriptors.
C7_Witness ==
    /\ Built
    /\ tensor_sizes = << 3 >>
    /\ NumPlacements = 5
    /\ Len(Emitted) = 3

\* The placement indices whose chunk is not empty, and the p-th of them.
SplitSize == CeilDiv(ShardedSize, NumPlacements)
ChunkSize(i) ==
    LET left == ShardedSize - i * SplitSize
    IN  IF left <= 0 THEN 0 ELSE IF left < SplitSize THEN left ELSE SplitSize
KeptIndices == {i \in 0..(NumPlacements - 1) : ChunkSize(i) > 0}
NthKept(p) == CHOOSE i \in KeptIndices : Cardinality({j \in KeptIndices : j < i}) = p - 1

DimInRange == dim >= 0 - Len(tensor_sizes) /\ dim < Len(tensor_sizes)

\* C10: for dim in [-rank, rank) build_metadata emits, in placement order, one
\* descriptor per placement index i with a chunk size > 0: offsets 0 except
\* splitSize * i on the sharded dimension, sizes those of the shape except
\* the chunk size on the sharded dimension, placement placements[i]; dim < 0
\* gives what dim + rank gives; for dim outside the range it raises ValueError
\* and returns no metadata.
C10_DescriptorsOfBuildMetadata ==
    pc[0] # "start" =>
        IF DimInRange
        THEN /\ Built
             /\ Len(Emitted) = Cardinality(KeptIndices)
             /\ \A p \in 1..Len(Emitted) :
                   LET i == NthKept(p)
                   IN  /\ Len(Emitted[p].shard_offsets) = Len(tensor_sizes)
                       /\ Len(Emitted[p].shard_sizes) = Len(tensor_sizes)
                       /\ \A j \in 1..Len(tensor_sizes) :
                             /\ Emitted[p].shard_offsets[j] =
                                   (IF j = ShardedDim THEN SplitSize * i ELSE 0)
                             /\ Emitted[p].shard_sizes[j] =
                                   (IF j = ShardedDim THEN ChunkSize(i) ELSE tensor_sizes[j])
                       /\ Emitted[p].placement = placements[i + 1]
             /\ dim < 0 =>
                   Emitted = build_metadata(tensor_sizes, dim + Len(tensor_sizes),
                                            placements).shards_metadata
        ELSE /\ pc[0] = "ValueError"
             /\ Emitted = << >>

\* C10 witness: a negative dim on a two-dimensional shape, several descriptors
\* with different placements.
C10_Witness ==
    /\ Built
    /\ dim = -2
    /\ Len(tensor_sizes) = 2
    /\ Len(Emitted) = 3
    /\ Emitted[1].placement # Emitted[2].placement
    /\ Emitted[3].shard_offsets = << 2, 0 >>

\* ------------------------------------------ EnumerableShardingSpec (SpecEnum)
\* C5: a step of EnumerableShardingSpec.shard on a rank ends in
\* NotImplementedError and changes nothing else: no broadcast is called, no
\* tensor is written, no metadata is built, no local shard is made.
C5_EnumerableShardOnlyRaises ==
    [][\A r \in Ranks :
          enum_shard'[r] # enum_shard[r] =>
              /\ enum_shard'[r] = "NotImplementedError"
              /\ UNCHANGED << issued, tensor, pc, tensor_meta, local_shards,
                              enum_meta, enum_pc, shards, chunkInputs >>]_vars

\* C5 witness: shard has raised on a rank of a spec whose metadata was built.
C5_Witness ==
    /\ \E r \in Ranks : enum_shard[r] = "NotImplementedError"
    /\ enum_meta.error = "none"
    /\ issued = {}

\* Two boxes intersect when their ranges intersect on every dimension.
BoxesIntersect(a, b) ==
    \A j \in 1..Len(a.shard_offsets) :
        /\ a.shard_offsets[j] < b.shard_offsets[j] + b.shard_sizes[j]
        /\ b.shard_offsets[j] < a.shard_offsets[j] + a.shard_sizes[j]

RECURSIVE Product(_)
Product(q) == IF q = << >> THEN 1 ELSE Head(q) * Product(Tail(q))

RECURSIVE TotalVolume(_)
TotalVolume(shs) ==
    IF shs = << >> THEN 0 ELSE Product(Head(shs).shard_sizes) + TotalVolume(Tail(shs))

SameRank(shs) ==
    \A i, k \in 1..Len(shs) : Len(shs[i].shard_offsets) = Len(shs[k].shard_offsets)

NoTwoIntersect(shs) ==
    \A i, k \in 1..Len(shs) : i # k => ~BoxesIntersect(shs[i], shs[k])

\* The shards lie in the shape, no two intersect, and their volumes add up
\* to the volume of the shape.
TilesExactly(shs, sizes) ==
    /\ \A i \in 1..Len(shs) :
          /\ Len(shs[i].shard_offsets) = Len(sizes)
          /\ \A j \in 1..Len(sizes) :
                shs[i].shard_offsets[j] + shs[i].shard_sizes[j] <= sizes[j]
    /\ NoTwoIntersect(shs)
    /\ TotalVolume(shs) = Product(sizes)

\* C8: construction fails for an empty list, for shards of different
\* coordinate rank and for two shards that overlap; build_metadata fails when
\* the shards do not tile the shape exactly; the metadata it returns holds the
\* shard list as supplied, whose shards do not overlap and tile the shape.
C8_EnumerableSpecIsValidated ==
    /\ enum_pc # "new" =>
          (enum_pc = "constructed" <=>
              (Len(shards) > 0 /\ SameRank(shards) /\ NoTwoIntersect(shards)))
    /\ enum_meta.error # "unbuilt" =>
          (enum_meta.error = "none" <=> TilesExactly(shards, tensor_sizes))
    /\ enum_meta.error = "none" =>
          /\ enum_meta.shards_metadata = shards
          /\ enum_meta.size = tensor_sizes
          /\ NoTwoIntersect(enum_meta.shards_metadata)

\* C8 witness: metadata was returned for a list of several shards that were
\* not supplied in the order of their offsets.
C8_Witness ==
    /\ enum_meta.error = "none"
    /\ Len(shards) >= 2
    /\ shards[1].shard_offsets # [j \in 1..Len(tensor_sizes) |-> 0]

====
